---- MODULE Spec2Model ----
(***************************************************************************)
(* Photo-Replicator-AI: the multi-chunk generation pipeline.               *)
(*                                                                         *)
(*   HomePage.handleGenerateClick   (src/src/app/page.tsx)                 *)
(*     -> generateWebpageAction     (src/src/app/actions.ts)               *)
(*       -> generateWebpageFlow     (src/src/ai/flows/                     *)
(*                                   generate-webpage-from-image.ts)       *)
(*         -> generateWebpagePrompt (the remote model, an environment)     *)
(*                                                                         *)
(* Text is a sequence of tokens.  A token is one of the substrings the     *)
(* code looks for (the code fence, the word html after it, the            *)
(* continuation marker, a blank, a line break) or an opaque piece of       *)
(* content; every string operation of the code is modelled on tokens.      *)
(***************************************************************************)
EXTENDS Integers, Sequences, FiniteSets, TLC

VARIABLES
  originalImage,        \* page.tsx:18  useState<string | null>
  generatedCode,        \* page.tsx:19
  isLoading,            \* page.tsx:20
  error,                \* page.tsx:21
  isGenerationComplete, \* page.tsx:22
  progressMessage,      \* page.tsx:23
  attempts,             \* page.tsx:24
  pendingReads,         \* FileReaders started by handleImageUpload, not yet ended
  pc,                   \* position of handleGenerateClick
  img,                  \* originalImage as captured by the running handler
  errorAtClick,         \* error as captured by the running handler (page.tsx:150)
  accumulatedCode,      \* page.tsx:72
  complete,             \* page.tsx:73
  currentAttempt,       \* page.tsx:74
  request,              \* arguments of the adapter call in flight (page.tsx:81)
  flowInput,            \* last input the adapter forwarded to the flow (actions.ts:25)
  lastResult,           \* last value the adapter call produced
  toasts,               \* notices (title, description) issued by the current run
  returned,             \* generatedCode of every result returned in the current run
  adapterCalls,         \* adapter calls issued by the current run
  remoteCalls,          \* remote model calls made for the current run
  seen,                 \* classes of remote failures the current run met
  stopped,              \* a result carried an error, or complete was set
  rawText,              \* a text of the remote model handed to the flow on its own
  textPc,               \* "raw" before the flow has processed rawText, "processed" after
  textOut               \* what the flow made of rawText

pageVars == <<originalImage, generatedCode, isLoading, error, isGenerationComplete,
              progressMessage, attempts, pendingReads, pc, img, errorAtClick,
              accumulatedCode, complete, currentAttempt, request, flowInput,
              lastResult, toasts, returned, adapterCalls, remoteCalls, seen, stopped>>

textVars == <<rawText, textPc, textOut>>

vars == <<pageVars, textVars>>

----------------------------------------------------------------------------
(* Constants of the program *)

MAX_ATTEMPTS == 5

marker == "<!-- MORE_CONTENT_TO_FOLLOW -->"
\* the three backquotes that open or close a markdown code block
FENCE == "<fence>"
HTML == "html"
SP == " "
NL == "\n"

(* Bounds of the model *)

MaxChunkLen == 1
\* longest text of the remote model handed to the flow on its own, in tokens
MaxTextLen == 5

----------------------------------------------------------------------------
(* JavaScript values *)

\* Texts and messages are token sequences; null and undefined are this one
Undefined == <<"<undefined>">>
\* an absent finish reason or error name
NoName == "<undefined>"

\* if (t), for a text or a message
Truthy(t) == t # Undefined /\ t # <<>>

\* a ?? b
Coalesce(a, b) == IF a = Undefined THEN b ELSE a

RECURSIVE Flatten(_)
Flatten(ss) == IF ss = <<>> THEN <<>> ELSE Head(ss) \o Flatten(Tail(ss))

RECURSIVE SeqsUpTo(_, _)
SeqsUpTo(S, n) ==
  IF n = 0 THEN {<<>>}
  ELSE LET shorter == SeqsUpTo(S, n - 1)
       IN  shorter \cup {Append(s, x) : s \in {t \in shorter : Len(t) = n - 1}, x \in S}

----------------------------------------------------------------------------
(* String operations, on token sequences *)

IsWs(t) == t \in {SP, NL}

StartsWith(s, p) == Len(s) >= Len(p) /\ SubSeq(s, 1, Len(p)) = p
EndsWith(s, p) == Len(s) >= Len(p) /\ SubSeq(s, Len(s) - Len(p) + 1, Len(s)) = p
Includes(s, t) == \E i \in 1..Len(s) : s[i] = t

\* s.substring(n), n counted in tokens
Substring(s, n) == SubSeq(s, n + 1, Len(s))

\* index of the first token at or after from that is not white space, Len(s)+1 if none
FirstNonWs(s, from) ==
  IF \E k \in from..Len(s) : ~IsWs(s[k])
  THEN CHOOSE k \in from..Len(s) : ~IsWs(s[k]) /\ \A j \in from..(k - 1) : IsWs(s[j])
  ELSE Len(s) + 1

\* index of the last token that is not white space, 0 if none
LastNonWs(s) ==
  IF \E k \in 1..Len(s) : ~IsWs(s[k])
  THEN CHOOSE k \in 1..Len(s) : ~IsWs(s[k]) /\ \A j \in (k + 1)..Len(s) : IsWs(s[j])
  ELSE 0

TrimStart(s) == SubSeq(s, FirstNonWs(s, 1), Len(s))
TrimEnd(s) == SubSeq(s, 1, LastNonWs(s))
Trim(s) == TrimEnd(TrimStart(s))

LastIndexOf(s, t) ==
  IF Includes(s, t) THEN CHOOSE i \in 1..Len(s) : s[i] = t /\ \A j \in (i + 1)..Len(s) : s[j] # t
  ELSE 0

IndexOf(s, t) ==
  IF Includes(s, t) THEN CHOOSE i \in 1..Len(s) : s[i] = t /\ \A j \in 1..(i - 1) : s[j] # t
  ELSE 0

\* s.replace(t, ""): a string pattern replaces the first occurrence only
ReplaceFirst(s, t) ==
  IF Includes(s, t)
  THEN SubSeq(s, 1, IndexOf(s, t) - 1) \o SubSeq(s, IndexOf(s, t) + 1, Len(s))
  ELSE s

\* s.replace(/marker\s*$/g, ""): the marker followed only by white space up to the end
ReplaceMarkerAtEnd(s) ==
  IF LastNonWs(s) > 0 /\ s[LastNonWs(s)] = marker THEN SubSeq(s, 1, LastNonWs(s) - 1) ELSE s

\* s.match(markdownBlockRegex), without and with the m flag.  The pattern is:
\* line start, fence, optional html, white space, a lazy group, white space,
\* fence, line end.  The start of a line is the start of the text, with m also
\* the position after a line break; the end of a line is the end of the text,
\* with m also the position before a line break.  The match is the leftmost
\* one; the group is lazy, so it ends at the first place from which only white
\* space and a closing fence at a line end follow.
LineStart(s, i, m) == i = 1 \/ (m /\ s[i - 1] = NL)
LineEnd(s, q, m) == q = Len(s) \/ (m /\ s[q + 1] = NL)

\* first index of the group for an opening fence at i
GroupStart(s, i) ==
  FirstNonWs(s, IF i + 1 <= Len(s) /\ s[i + 1] = HTML THEN i + 2 ELSE i + 1)

\* the group may end before p: white space, then a closing fence at $
ClosesAt(s, p, m) ==
  LET q == FirstNonWs(s, p)
  IN  q <= Len(s) /\ s[q] = FENCE /\ LineEnd(s, q, m)

MatchesAt(s, i, m) ==
  /\ LineStart(s, i, m)
  /\ s[i] = FENCE
  /\ \E p \in GroupStart(s, i)..Len(s) : ClosesAt(s, p, m)

GroupAt(s, i, m) ==
  LET gs == GroupStart(s, i)
      p == CHOOSE p \in gs..Len(s) :
             ClosesAt(s, p, m) /\ \A r \in gs..(p - 1) : ~ClosesAt(s, r, m)
  IN  SubSeq(s, gs, p - 1)

\* [found, group]: match != null, match[1]
MatchBlock(s, m) ==
  IF \E i \in 1..Len(s) : MatchesAt(s, i, m)
  THEN LET i == CHOOSE i \in 1..Len(s) :
                  MatchesAt(s, i, m) /\ \A j \in 1..(i - 1) : ~MatchesAt(s, j, m)
       IN  [found |-> TRUE, group |-> GroupAt(s, i, m)]
  ELSE [found |-> FALSE, group |-> <<>>]

----------------------------------------------------------------------------
(* Values thrown by the remote call, and what the handlers read of them *)

NoCause == [isObject |-> FALSE, hasMessage |-> FALSE, message |-> Undefined]

\* nullish: the value is null or undefined; isError: it is an instance of Error
Thrown(isErr, nm, msg, cs) ==
  [nullish |-> FALSE, isError |-> isErr, name |-> nm, message |-> msg, cause |-> cs]

ThrownNullish ==
  [nullish |-> TRUE, isError |-> FALSE, name |-> NoName, message |-> Undefined, cause |-> NoCause]

\* the TypeError of Object.getOwnPropertyNames(undefined)
NullishTypeError ==
  Thrown(TRUE, "TypeError", <<"Cannot convert undefined or null to object">>, NoCause)

\* the TypeError of textError.message and candidateError.message on a nullish value
AccessTypeError ==
  Thrown(TRUE, "TypeError", <<"Cannot read properties of undefined (reading 'message')">>, NoCause)

ThrownValues ==
  { Thrown(TRUE, "Error", <<"429 Too Many Requests">>, NoCause),
    Thrown(TRUE, "Error", <<"Quota", "exceeded">>, NoCause),
    Thrown(TRUE, "Error", <<"candidate", "blocked">>, NoCause),
    Thrown(TRUE, "Error", <<"request", "failed">>,
           [isObject |-> TRUE, hasMessage |-> TRUE, message |-> <<"no", "candidate">>]),
    Thrown(TRUE, "Error", <<"request", "failed">>,
           [isObject |-> TRUE, hasMessage |-> TRUE, message |-> Undefined]),
    Thrown(TRUE, "TypeError", <<"fetch", "failed">>, NoCause),
    Thrown(TRUE, "Error", <<>>, NoCause),
    Thrown(FALSE, NoName, Undefined, NoCause),
    ThrownNullish }

ToLowerCase(w) == IF w = "Quota" THEN "quota" ELSE w

ToUpperCase(w) ==
  CASE w = "stop" -> "STOP"
    [] w = "length" -> "LENGTH"
    [] w = "blocked" -> "BLOCKED"
    [] w = "other" -> "OTHER"
    [] w = "unknown" -> "UNKNOWN"
    [] w = "safety" -> "SAFETY"
    [] OTHER -> w

\* msg.toLowerCase().includes(w)
IncludesLower(msg, w) == \E i \in 1..Len(msg) : ToLowerCase(msg[i]) = w

----------------------------------------------------------------------------
(* The remote model: what generateWebpagePrompt(input) does when awaited *)

NoThrown == Thrown(FALSE, NoName, Undefined, NoCause)

Llm(k, e, t, tt, c, fr, fm) ==
  [kind |-> k, thrown |-> e, text |-> t, textThrows |-> tt, cand |-> c,
   finishReason |-> fr, finishMessage |-> fm]

\* the call rejects with e
LlmThrows(e) == Llm("throws", e, Undefined, FALSE, "none", NoName, Undefined)
\* the call resolves to null or undefined
LlmNull == Llm("null", NoThrown, Undefined, FALSE, "none", NoName, Undefined)
\* the call resolves to a response: text() gives t (or throws), candidates is
\* absent ("none"), throws when read ("throws"), or holds a first candidate
LlmResponse(t, tt, c, fr, fm) == Llm("response", NoThrown, t, tt, c, fr, fm)
\* the call resolves to a response whose text() or candidates throws null or undefined
LlmAccessThrowsNullish == Llm("accessNullish", NoThrown, Undefined, TRUE, "none", NoName, Undefined)

----------------------------------------------------------------------------
(* generateWebpageFlow *)

FlowOutput(chunk, done, fr, fm) ==
  [htmlChunk |-> chunk, isComplete |-> done, finishReasonStr |-> fr, finishMessageStr |-> fm]

\* catch (e) around the prompt call: its first statement lists the own properties
\* of e, which throws a TypeError out of the flow when e is null or undefined
\* the prompt segments generateWebpagePrompt builds from the flow's input: the
\* continuation prompt, which embeds previousContent, or the initial prompt
generateWebpagePrompt(input) ==
  IF Truthy(input.previousContent) /\ input.attemptNumber # 0 /\ input.attemptNumber > 1
  THEN [kind |-> "CONTINUATION", attempt |-> input.attemptNumber,
        previousContent |-> input.previousContent, url |-> input.photoDataUri]
  ELSE [kind |-> "INITIAL GENERATION", attempt |-> 1,
        previousContent |-> Undefined, url |-> input.photoDataUri]

FlowPromptErrorThrows(e) == e.nullish

FlowPromptError(e) ==
  FlowOutput(<<>>, TRUE,
             IF e.name # NoName /\ e.name # "" THEN <<e.name>> ELSE <<"PROMPT_EXECUTION_ERROR">>,
             IF Truthy(e.message) THEN e.message
             ELSE <<"Failed to execute the prompt to the AI model.">>)

\* if (!llmResponse)
FlowNoResponse ==
  FlowOutput(<<>>, TRUE, <<"LLM_RESPONSE_UNDEFINED">>,
             <<"The response from the AI model was unexpectedly empty.">>)

\* htmlChunkResult after the try around llmResponse.text()
FlowText(llm) == IF llm.textThrows THEN <<>> ELSE IF llm.text = Undefined THEN <<>> ELSE llm.text

\* finishReason after both try blocks
FlowFinishReason(llm) ==
  LET afterText == IF llm.textThrows THEN "TEXT_ACCESS_ERROR" ELSE NoName
  IN  CASE llm.cand = "present" -> IF afterText = NoName THEN llm.finishReason ELSE afterText
        [] llm.cand = "none" ->
             IF ~Truthy(FlowText(llm)) /\ afterText = NoName THEN "NO_CANDIDATES" ELSE afterText
        [] OTHER -> IF afterText = NoName THEN "CANDIDATE_ACCESS_ERROR" ELSE afterText

\* finishMessage after both try blocks
FlowFinishMessage(llm) ==
  LET afterText == IF llm.textThrows THEN <<"Error extracting text from AI response">>
                   ELSE Undefined
      frAfterText == IF llm.textThrows THEN "TEXT_ACCESS_ERROR" ELSE NoName
  IN  CASE llm.cand = "present" ->
             IF afterText = Undefined THEN llm.finishMessage ELSE afterText
        [] llm.cand = "none" ->
             IF ~Truthy(FlowText(llm)) /\ frAfterText = NoName
             THEN <<"AI model returned no candidates and no text.">> ELSE afterText
        [] OTHER ->
             IF frAfterText = NoName THEN <<"Error processing AI candidates">> ELSE afterText

\* Remove markdown code blocks if present
FlowStripFences(h) ==
  LET match == MatchBlock(Trim(h), TRUE)
  IN  IF match.found /\ match.group # <<>>
      THEN Trim(match.group)
      ELSE LET a == IF StartsWith(h, <<FENCE, HTML>>) THEN TrimStart(Substring(h, 2))
                    ELSE IF StartsWith(h, <<FENCE>>) THEN TrimStart(Substring(h, 1))
                    ELSE h
               b == IF EndsWith(a, <<FENCE>>) THEN TrimEnd(SubSeq(a, 1, Len(a) - 1)) ELSE a
           IN  Trim(b)

FlowMarkerFound(h) == EndsWith(Trim(h), <<marker>>)

FlowStripMarker(h) ==
  IF FlowMarkerFound(h) THEN TrimEnd(SubSeq(h, 1, LastIndexOf(h, marker) - 1)) ELSE h

\* the classifier of the earlier revision, which compares the reason as it is
FlowClassifyCaseSensitive(finishReason, userMarkerFound) ==
  IF finishReason \in {"MAX_TOKENS", "OTHER", "SAFETY", "RECITATION", "UNKNOWN"} THEN FALSE
  ELSE IF userMarkerFound THEN FALSE
  ELSE TRUE

\* isActuallyComplete before the empty-chunk safeguard
FlowClassify(finishReason, userMarkerFound) ==
  LET check == IF finishReason = NoName THEN "" ELSE ToUpperCase(finishReason)
  IN  IF check \in {"MAX_TOKENS", "OTHER", "SAFETY", "RECITATION", "UNKNOWN"} THEN FALSE
      ELSE IF userMarkerFound THEN FALSE
      ELSE TRUE

\* the empty-chunk safeguard
FlowSafeguard(h, isActuallyComplete, attemptNumber) ==
  IF (~Truthy(h) \/ Trim(h) = <<>>) /\ ~isActuallyComplete
  THEN (IF attemptNumber > 1 THEN TRUE ELSE isActuallyComplete)
  ELSE isActuallyComplete

\* the body of the flow after a response object has arrived
FlowProcess(input, llm) ==
  LET stripped == FlowStripFences(FlowText(llm))
      found == FlowMarkerFound(stripped)
      chunk == FlowStripMarker(stripped)
      fr == FlowFinishReason(llm)
      done == FlowSafeguard(chunk, FlowClassify(fr, found), input.attemptNumber)
      final == IF done /\ Includes(chunk, marker) THEN TrimEnd(ReplaceMarkerAtEnd(chunk))
               ELSE chunk
  IN  FlowOutput(final, done, IF fr = NoName THEN Undefined ELSE <<fr>>, FlowFinishMessage(llm))

\* the flow returns an output, or throws
FlowReturns(out) == [kind |-> "returns", output |-> out, thrown |-> NoThrown]
FlowThrows(e) == [kind |-> "throws", output |-> FlowOutput(<<>>, TRUE, Undefined, Undefined),
                  thrown |-> e]

\* a flow with no try around the prompt call
generateWebpageFlowRethrowing(input, llm) ==
  CASE llm.kind = "throws" -> FlowThrows(llm.thrown)
    [] llm.kind = "null" -> FlowReturns(FlowNoResponse)
    [] llm.kind = "accessNullish" -> FlowThrows(AccessTypeError)
    [] OTHER -> FlowReturns(FlowProcess(input, llm))

generateWebpageFlow(input, llm) ==
  CASE llm.kind = "throws" ->
         IF FlowPromptErrorThrows(llm.thrown) THEN FlowThrows(NullishTypeError)
         ELSE FlowReturns(FlowPromptError(llm.thrown))
    [] llm.kind = "null" -> FlowReturns(FlowNoResponse)
    [] llm.kind = "accessNullish" -> FlowThrows(AccessTypeError)
    [] OTHER -> FlowReturns(FlowProcess(input, llm))

----------------------------------------------------------------------------
(* generateWebpageAction *)

DataImagePrefix == <<"data:", "image/">>

\* a schema that checks the data: scheme only
ValidationOfSchemeOnly(photoDataUri) == StartsWith(photoDataUri, <<"data:">>)

\* ProcessImageInputSchema.safeParse(...).success
ValidationSuccess(photoDataUri) == StartsWith(photoDataUri, DataImagePrefix)

ValidationMessage == <<"Invalid image data URI format. Must start with 'data:image/'.">>
NoInitialContentMessage == <<"AI did not generate initial content.">>
UnexpectedMessage == <<"An unexpected error occurred during webpage code generation.">>
UsageLimitsMessage == <<"You've exceeded the current API usage limits.">>
ContentRestrictionsMessage ==
  <<"The AI was unable to process this image due to content restrictions or internal error.">>

ActionResult(code, err, done) == [generatedCode |-> code, error |-> err, isComplete |-> done]

\* what awaiting the action gives: a result, or a rejection with a message
Returns(r) == [kind |-> "returns", result |-> r, message |-> Undefined]
Rejects(msg) == [kind |-> "rejects", result |-> ActionResult(Undefined, Undefined, Undefined),
                 message |-> msg]

\* a fence stripping whose fallback branch leaves the whitespace around the text
ActionStripFencesUntrimmed(h) ==
  LET match == MatchBlock(Trim(h), FALSE)
  IN  IF match.found /\ match.group # <<>>
      THEN Trim(match.group)
      ELSE LET a == IF StartsWith(h, <<FENCE, HTML>>) THEN Substring(h, 2)
                    ELSE IF StartsWith(h, <<FENCE>>) THEN Substring(h, 1)
                    ELSE h
           IN  IF EndsWith(a, <<FENCE>>) THEN SubSeq(a, 1, Len(a) - 1) ELSE a

\* stripping of markdown code blocks, the fallback of the action
ActionStripFences(h) ==
  LET match == MatchBlock(Trim(h), FALSE)
  IN  IF match.found /\ match.group # <<>>
      THEN Trim(match.group)
      ELSE LET a == IF StartsWith(h, <<FENCE, HTML>>) THEN Substring(h, 2)
                    ELSE IF StartsWith(h, <<FENCE>>) THEN Substring(h, 1)
                    ELSE h
               b == IF EndsWith(a, <<FENCE>>) THEN SubSeq(a, 1, Len(a) - 1) ELSE a
           IN  Trim(b)

\* Ensure no marker is left in the final chunk if it's complete
ActionStripMarker(h, isComplete) ==
  IF isComplete /\ Includes(h, marker) THEN TrimEnd(ReplaceFirst(h, marker)) ELSE h

\* the try block after the flow has returned responseChunk
ActionProcess(responseChunk, previousContent) ==
  LET htmlChunk == ActionStripMarker(ActionStripFences(Coalesce(responseChunk.htmlChunk, <<>>)),
                                     responseChunk.isComplete)
  IN  IF (~Truthy(htmlChunk) \/ Trim(htmlChunk) = <<>>)
         /\ ~responseChunk.isComplete /\ ~Truthy(previousContent)
      THEN ActionResult(<<>>, NoInitialContentMessage, TRUE)
      ELSE ActionResult(htmlChunk, Undefined, responseChunk.isComplete)

\* the catch block reads e.cause.message.includes: a TypeError when it is no string
ActionCatchThrows(e) ==
  /\ e.isError
  /\ ~(Includes(e.message, "429 Too Many Requests") \/ IncludesLower(e.message, "quota"))
  /\ ~Includes(e.message, "candidate")
  /\ e.cause.isObject /\ e.cause.hasMessage /\ e.cause.message = Undefined

\* errorMessage of the catch block
ActionCatchMessage(e) ==
  IF ~e.isError THEN UnexpectedMessage
  ELSE IF Includes(e.message, "429 Too Many Requests") \/ IncludesLower(e.message, "quota")
       THEN UsageLimitsMessage
  ELSE IF Includes(e.message, "candidate")
          \/ (e.cause.isObject /\ e.cause.hasMessage /\ Includes(e.cause.message, "candidate"))
       THEN ContentRestrictionsMessage
  ELSE e.message

\* a catch that reports the exception and leaves the run open
ActionCatchRetryable(e) ==
  IF ActionCatchThrows(e) THEN Rejects(<<"Cannot read properties of undefined (reading 'includes')">>)
  ELSE Returns(ActionResult(Undefined, ActionCatchMessage(e), FALSE))

ActionCatch(e) ==
  IF ActionCatchThrows(e) THEN Rejects(<<"Cannot read properties of undefined (reading 'includes')">>)
  ELSE Returns(ActionResult(Undefined, ActionCatchMessage(e), TRUE))

\* inputForChunk
ActionFlowInput(photoDataUri, previousContent, attemptNumber) ==
  [photoDataUri |-> photoDataUri, previousContent |-> previousContent,
   attemptNumber |-> attemptNumber]

generateWebpageAction(photoDataUri, previousContent, attemptNumber, llm) ==
  IF ~ValidationSuccess(photoDataUri)
  THEN Returns(ActionResult(Undefined, ValidationMessage, TRUE))
  ELSE LET flow == generateWebpageFlow(
                     ActionFlowInput(photoDataUri, previousContent, attemptNumber), llm)
       IN  IF flow.kind = "throws" THEN ActionCatch(flow.thrown)
           ELSE Returns(ActionProcess(flow.output, previousContent))

\* an action that calls the model a second time
RemoteCallsWithRetry(photoDataUri) == IF ValidationSuccess(photoDataUri) THEN 2 ELSE 0

\* remote model calls one invocation of the action makes
RemoteCallsOf(photoDataUri) == IF ValidationSuccess(photoDataUri) THEN 1 ELSE 0

----------------------------------------------------------------------------
(* Inputs of the model *)

\* files the user may pick; readAsDataURL gives data:<type>;base64,<payload>
File(major, minor, payload) == [type |-> <<major, minor>>, payload |-> payload]
Files == { File("image/", "png", "AAAA"), File("image/", "jpeg", "BBBB"),
           File("text/", "plain", "CCCC") }

acceptedTypes == { <<"image/", "png">>, <<"image/", "jpeg">>, <<"image/", "webp">>,
                   <<"image/", "gif">> }

ReadAsDataURL(f) == <<"data:">> \o f.type \o <<";base64,", f.payload>>

\* image payloads handed to the handler when it is driven directly
DirectImages == { ReadAsDataURL(f) : f \in Files } \cup { <<"not-a-data-uri">> }

\* raw texts of the remote model
RemoteTexts ==
  { <<>>,
    <<"<html>", marker>>,
    <<"</html>">>,
    <<marker>>,
    <<FENCE, HTML, NL, "</html>", NL, FENCE>> }

\* finish reasons of the remote model in a run
FinishReasons == { NoName, "STOP", "MAX_TOKENS", "SAFETY", "RECITATION", "other" }

FinishMessageOf(fr) ==
  IF fr \in {"SAFETY", "RECITATION", "blocked"} THEN <<"Content was blocked.">> ELSE Undefined

LlmBehaviours ==
  { LlmThrows(e) : e \in ThrownValues }
  \cup { LlmNull, LlmAccessThrowsNullish }
  \cup { LlmResponse(t, FALSE, "present", fr, FinishMessageOf(fr)) :
            t \in RemoteTexts \cup {Undefined}, fr \in FinishReasons }
  \cup { LlmResponse(t, FALSE, c, NoName, Undefined) :
            t \in RemoteTexts \cup {Undefined}, c \in {"none", "throws"} }
  \cup { LlmResponse(Undefined, TRUE, "present", fr, Undefined) : fr \in {"STOP", "SAFETY"} }
  \cup { LlmResponse(Undefined, TRUE, c, NoName, Undefined) : c \in {"none", "throws"} }

\* what a remote behaviour is, for the error taxonomy
IsQuota(llm) ==
  /\ llm.kind = "throws" /\ ~llm.thrown.nullish /\ llm.thrown.message # Undefined
  /\ (Includes(llm.thrown.message, "429 Too Many Requests")
      \/ IncludesLower(llm.thrown.message, "quota"))
IsTransport(llm) == llm.kind \in {"throws", "null"}
IsPolicy(llm) ==
  llm.kind = "response" /\ FlowFinishReason(llm) \in {"SAFETY", "RECITATION"}

LlmClasses(llm) ==
  (IF IsQuota(llm) THEN {"quota"} ELSE {})
  \cup (IF IsTransport(llm) THEN {"transport"} ELSE {})
  \cup (IF IsPolicy(llm) THEN {"policy"} ELSE {})

\* results of a stub adapter
StubChunks == SeqsUpTo({"<html>", "</html>"}, MaxChunkLen) \cup {Undefined}
StubErrors == { Undefined, <<>>, <<"stub error">> }
StubResults ==
  { ActionResult(c, e, d) : c \in StubChunks, e \in StubErrors, d \in BOOLEAN }

\* messages of a rejected adapter call
RejectMessages == { Undefined, <<"Failed to fetch">> }

----------------------------------------------------------------------------
(* HomePage *)

GenericNoCodeMessage == <<"AI did not generate any code.">>
CriticalDefaultMessage == <<"An unexpected error occurred during page generation.">>

\* the third argument of generateWebpageAction when the caller passes none
NotPassed == 0
\* attemptNumber: number = 1
DefaultAttemptNumber == 1
AttemptNumberOf(arg) == IF arg = NotPassed THEN DefaultAttemptNumber ELSE arg

NoRequest == [photoDataUri |-> Undefined, previousContent |-> Undefined, attemptNumber |-> NotPassed]
NoFlowInput == ActionFlowInput(Undefined, Undefined, NotPassed)
NoOutcome == Rejects(Undefined)

\* a call that never passes the accumulated code
CallArgsWithoutPrevious(image, attempt, acc) ==
  [photoDataUri |-> image, previousContent |-> Undefined, attemptNumber |-> NotPassed]

\* the arguments of generateWebpageAction(originalImage, currentAttempt > 1 ? accumulatedCode : undefined)
CallArgs(image, attempt, acc) ==
  [photoDataUri |-> image,
   previousContent |-> IF attempt > 1 THEN acc ELSE Undefined,
   attemptNumber |-> NotPassed]

\* the loop test with <= for <
LoopContinuesOffByOne(attempt, done) == attempt <= MAX_ATTEMPTS /\ ~done

\* the loop test without !complete
LoopContinuesIgnoringComplete(attempt, done) == attempt < MAX_ATTEMPTS

\* while (currentAttempt < MAX_ATTEMPTS && !complete)
LoopContinues(attempt, done) == attempt < MAX_ATTEMPTS /\ ~done

ChunkProgress(k) == <<"Generating code chunk", k, MAX_ATTEMPTS>>

\* the state of a mounted page, but for the image it holds
InitPage ==
  /\ generatedCode = Undefined
  /\ isLoading = FALSE
  /\ error = Undefined
  /\ isGenerationComplete = TRUE
  /\ progressMessage = <<>>
  /\ attempts = 0
  /\ pendingReads = {}
  /\ pc = "idle"
  /\ img = Undefined
  /\ errorAtClick = Undefined
  /\ accumulatedCode = <<>>
  /\ complete = FALSE
  /\ currentAttempt = 0
  /\ request = NoRequest
  /\ flowInput = NoFlowInput
  /\ lastResult = NoOutcome
  /\ toasts = {}
  /\ returned = <<>>
  /\ adapterCalls = 0
  /\ remoteCalls = 0
  /\ seen = {}
  /\ stopped = FALSE

\* no text is handed to the flow on its own
NoTextOut ==
  [finishReason |-> NoName, attemptNumber |-> NotPassed, cleanedText |-> <<>>,
   userMarkerFound |-> FALSE, isActuallyComplete |-> FALSE,
   output |-> FlowOutput(<<>>, FALSE, Undefined, Undefined),
   flowStripped |-> <<>>, actionStripped |-> <<>>,
   flowRestripped |-> <<>>, actionRestripped |-> <<>>,
   result |-> ActionResult(Undefined, Undefined, FALSE)]

InitNoText == rawText = <<>> /\ textPc = "off" /\ textOut = NoTextOut

Init == originalImage = Undefined /\ InitPage /\ InitNoText

runVars == <<pc, img, errorAtClick, accumulatedCode, complete, currentAttempt, request,
             flowInput, lastResult, toasts, returned, adapterCalls, remoteCalls, seen,
             stopped>>

\* ImageUpload.handleFileChange / handleDrop, then handleImageUpload up to readAsDataURL
SelectFile(f) ==
  /\ ~isLoading
  /\ f.type \in acceptedTypes
  /\ pendingReads' = pendingReads \cup {f}
  /\ UNCHANGED <<originalImage, generatedCode, isLoading, error, isGenerationComplete,
                 progressMessage, attempts>>
  /\ UNCHANGED runVars
  /\ UNCHANGED textVars

\* reader.onloadend: reader.result is the data URL, or null when the read failed
ReaderLoadEnd(f, ok) ==
  /\ f \in pendingReads
  /\ pendingReads' = pendingReads \ {f}
  /\ originalImage' = IF ok THEN ReadAsDataURL(f) ELSE Undefined
  /\ generatedCode' = Undefined
  /\ error' = Undefined
  /\ isGenerationComplete' = TRUE
  /\ progressMessage' = <<>>
  /\ attempts' = 0
  /\ UNCHANGED isLoading
  /\ UNCHANGED runVars
  /\ UNCHANGED textVars

\* clearImage, behind the remove button that is rendered when !disabled
ClearImage ==
  /\ ~isLoading
  /\ originalImage # Undefined
  /\ originalImage' = Undefined
  /\ generatedCode' = Undefined
  /\ error' = Undefined
  /\ isGenerationComplete' = TRUE
  /\ progressMessage' = <<>>
  /\ attempts' = 0
  /\ UNCHANGED <<isLoading, pendingReads>>
  /\ UNCHANGED runVars
  /\ UNCHANGED textVars

\* toast({title, description})
Toast(title, description) == [title |-> title, description |-> description]
HaltedToast == Toast("Generation Halted", <<"Reached maximum attempts. The content might be truncated.">>)
SuccessToast == Toast("Success!", <<"Webpage code generated successfully.">>)
NoCodeToast == Toast("No Code Generated", <<"The AI did not produce any code for this image.">>)
ProcessingToast(k) == Toast("Processing...", <<"Chunk received. Continuing generation.", k>>)

\* the chunk put in front of the document
AppendChunkInFront(acc, code) == IF Truthy(code) THEN code \o acc ELSE acc

\* accumulatedCode += result.generatedCode, under if (result.generatedCode)
AppendChunk(acc, code) == IF Truthy(code) THEN acc \o code ELSE acc

\* no break after an error result
BreaksOnRejectOnly(o) == o.kind = "rejects"

\* the loop body ends in break: the call rejected, or the result carries an error
Breaks(o) == o.kind = "rejects" \/ Truthy(o.result.error)

\* the rest of handleGenerateClick after the loop: the final notice and
\* setIsLoading(false).  err, prog, ts: error, progressMessage and notices so far
HaltedPastBudget(acc, done, attempt) == ~done /\ attempt > MAX_ATTEMPTS /\ Truthy(acc)
Halted(acc, done, attempt) == ~done /\ attempt >= MAX_ATTEMPTS /\ Truthy(acc)
Succeeded(acc, done, attempt) == ~Halted(acc, done, attempt) /\ done /\ Truthy(acc)
NoCode(acc, done, attempt, staleError) ==
  /\ ~Halted(acc, done, attempt)
  /\ ~Succeeded(acc, done, attempt)
  /\ ~Truthy(acc) /\ ~Truthy(staleError)

\* a handler whose last statement is missing
AfterLoopStillLoading(acc, done, attempt, staleError, err, prog, ts) ==
  /\ toasts' = ts \cup (IF Halted(acc, done, attempt) THEN {HaltedToast} ELSE {})
                  \cup (IF Succeeded(acc, done, attempt) THEN {SuccessToast} ELSE {})
                  \cup (IF NoCode(acc, done, attempt, staleError) THEN {NoCodeToast} ELSE {})
  /\ progressMessage' =
       (IF Halted(acc, done, attempt) THEN <<"Max attempts reached. Content may be partial.">>
        ELSE IF Succeeded(acc, done, attempt) THEN <<"Generation Complete!">>
        ELSE IF NoCode(acc, done, attempt, staleError) THEN <<"No code generated.">>
        ELSE prog)
  /\ error' = IF NoCode(acc, done, attempt, staleError) THEN GenericNoCodeMessage ELSE err
  /\ isLoading' = TRUE
  /\ pc' = "done"

AfterLoop(acc, done, attempt, staleError, err, prog, ts) ==
  /\ toasts' = ts \cup (IF Halted(acc, done, attempt) THEN {HaltedToast} ELSE {})
                  \cup (IF Succeeded(acc, done, attempt) THEN {SuccessToast} ELSE {})
                  \cup (IF NoCode(acc, done, attempt, staleError) THEN {NoCodeToast} ELSE {})
  /\ progressMessage' =
       (IF Halted(acc, done, attempt) THEN <<"Max attempts reached. Content may be partial.">>
        ELSE IF Succeeded(acc, done, attempt) THEN <<"Generation Complete!">>
        ELSE IF NoCode(acc, done, attempt, staleError) THEN <<"No code generated.">>
        ELSE prog)
  /\ error' = IF NoCode(acc, done, attempt, staleError) THEN GenericNoCodeMessage ELSE err
  /\ isLoading' = FALSE
  /\ pc' = "done"

\* from the loop test to the next await, or to the end of the handler.
\* broke: the loop body ended in break; att: the attempts state so far; calls:
\* the adapter calls issued so far
ContinueCountingAfterwards(image, acc, done, attempt, broke, staleError, err, prog, ts, att, calls) ==
  /\ accumulatedCode' = acc
  /\ complete' = done
  /\ IF ~broke /\ LoopContinues(attempt, done)
     THEN /\ currentAttempt' = attempt + 1
          /\ attempts' = attempt
          /\ progressMessage' = ChunkProgress(attempt + 1)
          /\ request' = CallArgs(image, attempt + 1, acc)
          /\ adapterCalls' = calls + 1
          /\ error' = err
          /\ toasts' = ts
          /\ isLoading' = TRUE
          /\ pc' = "await"
     ELSE /\ currentAttempt' = attempt
          /\ attempts' = att
          /\ request' = NoRequest
          /\ adapterCalls' = calls
          /\ AfterLoop(acc, done, attempt, staleError, err, prog, ts)

Continue(image, acc, done, attempt, broke, staleError, err, prog, ts, att, calls) ==
  /\ accumulatedCode' = acc
  /\ complete' = done
  /\ IF ~broke /\ LoopContinues(attempt, done)
     THEN /\ currentAttempt' = attempt + 1
          /\ attempts' = attempt + 1
          /\ progressMessage' = ChunkProgress(attempt + 1)
          /\ request' = CallArgs(image, attempt + 1, acc)
          /\ adapterCalls' = calls + 1
          /\ error' = err
          /\ toasts' = ts
          /\ isLoading' = TRUE
          /\ pc' = "await"
     ELSE /\ currentAttempt' = attempt
          /\ attempts' = att
          /\ request' = NoRequest
          /\ adapterCalls' = calls
          /\ AfterLoop(acc, done, attempt, staleError, err, prog, ts)

\* handleGenerateClick up to the first await: the button is disabled while
\* !originalImage || isLoading
Click ==
  /\ Truthy(originalImage)
  /\ ~isLoading
  /\ generatedCode' = <<>>
  /\ isGenerationComplete' = FALSE
  /\ img' = originalImage
  /\ errorAtClick' = error
  /\ flowInput' = NoFlowInput
  /\ lastResult' = NoOutcome
  /\ returned' = <<>>
  /\ remoteCalls' = 0
  /\ seen' = {}
  /\ stopped' = FALSE
  /\ Continue(originalImage, <<>>, FALSE, 0, FALSE, error, Undefined,
              <<"Initializing generation...">>, {}, 0, 0)
  /\ UNCHANGED <<originalImage, pendingReads>>
  /\ UNCHANGED textVars

\* a loop without the safeguard
StalledNever(broke, reported, code, attempt) == FALSE

\* else if (!complete && !result.generatedCode && currentAttempt > 1)
StalledContinuation(broke, reported, code, attempt) ==
  ~broke /\ ~reported /\ ~Truthy(code) /\ attempt > 1

\* the awaited call settles with outcome o, and the handler runs on to the next
\* await or to its end
Settle(o) ==
  LET r == o.result
      rejected == o.kind = "rejects"
      failed == ~rejected /\ Truthy(r.error)
      broke == Breaks(o)
      appends == ~rejected /\ Truthy(r.generatedCode)
      acc == IF rejected THEN accumulatedCode ELSE AppendChunk(accumulatedCode, r.generatedCode)
      reported == IF broke THEN complete ELSE r.isComplete
      stalled == StalledContinuation(broke, reported, r.generatedCode, currentAttempt)
      done == reported \/ stalled
      err == IF rejected THEN (IF Truthy(o.message) THEN o.message ELSE CriticalDefaultMessage)
             ELSE IF failed THEN r.error
             ELSE error
      prog == IF rejected THEN <<"Generation critically failed.">>
              ELSE IF failed THEN <<"Generation failed.">>
              ELSE IF stalled THEN <<"Generation finished with potential truncation.">>
              ELSE progressMessage
      ts == toasts \cup (IF rejected THEN {Toast("Critical Error", err)} ELSE {})
                   \cup (IF failed THEN {Toast("Generation Error", r.error)} ELSE {})
                   \cup (IF ~broke /\ ~reported /\ Truthy(r.generatedCode)
                         THEN {ProcessingToast(currentAttempt)} ELSE {})
  IN  /\ pc = "await"
      /\ lastResult' = o
      /\ generatedCode' = IF appends THEN acc ELSE generatedCode
      /\ isGenerationComplete' = IF broke THEN TRUE ELSE done
      /\ returned' = IF rejected THEN returned
                     ELSE Append(returned, Coalesce(r.generatedCode, <<>>))
      /\ stopped' = (stopped \/ failed \/ done)
      /\ Continue(img, acc, done, currentAttempt, broke, errorAtClick, err, prog, ts,
                  attempts, adapterCalls)
      /\ UNCHANGED <<originalImage, pendingReads, img, errorAtClick>>
      /\ UNCHANGED textVars

\* the server runs generateWebpageAction against the remote behaviour llm
ActionSettles(llm) ==
  /\ pc = "await"
  /\ Settle(generateWebpageAction(request.photoDataUri, request.previousContent,
                                  AttemptNumberOf(request.attemptNumber), llm))
  /\ remoteCalls' = remoteCalls + RemoteCallsOf(request.photoDataUri)
  /\ seen' = IF ValidationSuccess(request.photoDataUri) THEN seen \cup LlmClasses(llm) ELSE seen
  /\ flowInput' = IF ValidationSuccess(request.photoDataUri)
                  THEN ActionFlowInput(request.photoDataUri, request.previousContent,
                                       AttemptNumberOf(request.attemptNumber))
                  ELSE flowInput

\* the awaited call rejects before it reaches the action
CallRejects(msg) ==
  /\ pc = "await"
  /\ Settle(Rejects(msg))
  /\ UNCHANGED <<remoteCalls, seen, flowInput>>

\* the adapter is a stub that returns r
StubSettles(r) ==
  /\ pc = "await"
  /\ Settle(Returns(r))
  /\ UNCHANGED <<remoteCalls, seen, flowInput>>

Next ==
  \/ \E f \in Files : SelectFile(f)
  \/ \E f \in Files, ok \in BOOLEAN : ReaderLoadEnd(f, ok)
  \/ ClearImage
  \/ Click
  \/ \E llm \in LlmBehaviours : ActionSettles(llm)
  \/ \E msg \in RejectMessages : CallRejects(msg)

Spec == Init /\ [][Next]_vars

\* the handler against a stub adapter, on a page that holds an image
InitStub ==
  /\ originalImage \in { ReadAsDataURL(f) : f \in {g \in Files : g.type \in acceptedTypes} }
  /\ InitPage
  /\ InitNoText

NextStub ==
  \/ Click
  \/ \E r \in StubResults : StubSettles(r)
  \/ \E msg \in RejectMessages : CallRejects(msg)

SpecStub == InitStub /\ [][NextStub]_vars

\* results of a stub adapter told apart by what the loop tests: code absent,
\* empty or not, error absent, empty or not, complete or not
SettledResults ==
  { ActionResult(c, e, d) : c \in { Undefined, <<>>, <<"<html>">> },
                            e \in StubErrors, d \in BOOLEAN }

\* the awaited adapter call settles: it returns a result or rejects
AdapterSettles ==
  \/ \E r \in SettledResults : StubSettles(r)
  \/ \E msg \in RejectMessages : CallRejects(msg)

NextStubFair ==
  \/ Click
  \/ AdapterSettles

\* the handler against a stub adapter whose every call eventually settles
SpecStubFair == InitStub /\ [][NextStubFair]_vars /\ WF_vars(AdapterSettles)

\* the handler and the action driven directly: the page holds any payload
InitDirect == originalImage \in DirectImages /\ InitPage /\ InitNoText

NextDirect ==
  \/ Click
  \/ \E llm \in LlmBehaviours : ActionSettles(llm)
  \/ \E msg \in RejectMessages : CallRejects(msg)

SpecDirect == InitDirect /\ [][NextDirect]_vars

----------------------------------------------------------------------------
(* The flow's post-processing of one text of the remote model *)

TextTokens == { FENCE, HTML, marker, SP, NL, "<p>" }
RawTexts == SeqsUpTo(TextTokens, MaxTextLen)

\* finish reasons of the first candidate, in the spellings the classifier folds
ClassifierReasons ==
  FinishReasons \cup { "OTHER", "UNKNOWN", "unknown", "blocked" }

\* input.attemptNumber, NotPassed when the input has none
AttemptNumbers == { NotPassed, 1, 2 }

InitText ==
  /\ originalImage = Undefined
  /\ InitPage
  /\ rawText \in RawTexts
  /\ textPc = "raw"
  /\ textOut = NoTextOut

\* generateWebpageFlow on a response whose text() is rawText and whose first
\* candidate has finish reason fr, for an input with attemptNumber n: the values
\* of htmlChunkResult, userMarkerFound and isActuallyComplete on the way, and
\* the output
FlowPostProcess(fr, n) ==
  LET llm == LlmResponse(rawText, FALSE, "present", fr, FinishMessageOf(fr))
      input == ActionFlowInput(ReadAsDataURL(File("image/", "png", "AAAA")), Undefined, n)
      stripped == FlowStripFences(FlowText(llm))
      found == FlowMarkerFound(stripped)
  IN  /\ textPc = "raw"
      /\ textPc' = "processed"
      /\ textOut' = [NoTextOut EXCEPT
                       !.finishReason = fr, !.attemptNumber = n,
                       !.cleanedText = FlowStripMarker(stripped),
                       !.userMarkerFound = found,
                       !.isActuallyComplete = FlowClassify(FlowFinishReason(llm), found),
                       !.output = generateWebpageFlow(input, llm).output]
      /\ UNCHANGED rawText
      /\ UNCHANGED pageVars

\* the fence-stripping step of the flow, and that of the action, on rawText
StripFences ==
  /\ textPc = "raw"
  /\ textPc' = "stripped"
  /\ textOut' = [NoTextOut EXCEPT !.flowStripped = FlowStripFences(rawText),
                                  !.actionStripped = ActionStripFences(rawText)]
  /\ UNCHANGED rawText
  /\ UNCHANGED pageVars

\* each step once more, on its own output
StripFencesAgain ==
  /\ textPc = "stripped"
  /\ textPc' = "restripped"
  /\ textOut' = [textOut EXCEPT !.flowRestripped = FlowStripFences(textOut.flowStripped),
                                !.actionRestripped = ActionStripFences(textOut.actionStripped)]
  /\ UNCHANGED rawText
  /\ UNCHANGED pageVars

\* finish reasons of a first attempt run through the whole action
ActionReasons == { "STOP", "MAX_TOKENS" }

\* generateWebpageAction, first attempt, on a response whose text() is rawText
ActionOnText(fr) ==
  LET llm == LlmResponse(rawText, FALSE, "present", fr, FinishMessageOf(fr))
      image == ReadAsDataURL(File("image/", "png", "AAAA"))
  IN  /\ textPc = "raw"
      /\ textPc' = "acted"
      /\ textOut' = [NoTextOut EXCEPT
                       !.finishReason = fr, !.attemptNumber = DefaultAttemptNumber,
                       !.result = generateWebpageAction(image, Undefined,
                                                        DefaultAttemptNumber, llm).result]
      /\ UNCHANGED rawText
      /\ UNCHANGED pageVars

NextText ==
  \/ \E fr \in ClassifierReasons, n \in AttemptNumbers : FlowPostProcess(fr, n)
  \/ StripFences
  \/ StripFencesAgain
  \/ \E fr \in ActionReasons : ActionOnText(fr)

SpecText == InitText /\ [][NextText]_vars

----------------------------------------------------------------------------
(* Outcomes of a run, as reported to the user *)

ErrorTitles == {"Generation Error", "Critical Error", "No Code Generated"}

\* FAILED: an error was set and shown
Failed == \E t \in toasts : t.title \in ErrorTitles
\* SUCCEEDED_TRUNCATED: the Generation Halted notice
Truncated == HaltedToast \in toasts
\* SUCCEEDED: the Success! notice
SucceededNotice == SuccessToast \in toasts

Outcomes ==
  (IF Failed THEN {"FAILED"} ELSE {})
  \cup (IF Truncated THEN {"SUCCEEDED_TRUNCATED"} ELSE {})
  \cup (IF SucceededNotice THEN {"SUCCEEDED"} ELSE {})

ErrorResult(o) == o.kind = "returns" /\ Truthy(o.result.error)

----------------------------------------------------------------------------
(* Claims *)

\* C1: in every run, whatever the adapter returns or throws, the adapter is
\* called at most MAX_ATTEMPTS times and the attempt counter never exceeds
\* MAX_ATTEMPTS.
C1_AttemptBound ==
  /\ adapterCalls <= MAX_ATTEMPTS
  /\ currentAttempt <= MAX_ATTEMPTS
  /\ attempts <= MAX_ATTEMPTS

\* a run that used the whole budget
C1_Witness == pc = "done" /\ adapterCalls = MAX_ATTEMPTS /\ currentAttempt = MAX_ATTEMPTS

\* C2: when handleGenerateClick finishes, exactly one of FAILED,
\* SUCCEEDED_TRUNCATED and SUCCEEDED has been reported.
C2_ExactlyOneTerminal == pc = "done" => Cardinality(Outcomes) = 1

\* C3: once an adapter result carried an error or the loop set complete, no
\* further adapter call is made in that run: no call is in flight, and every
\* call that was issued has returned.
C3_NoCallAfterTerminal ==
  stopped => (pc = "done" /\ request = NoRequest /\ adapterCalls = Len(returned))

\* a run that stopped on complete with budget left
C3_Witness == stopped /\ complete /\ adapterCalls = 2 /\ ~Truthy(error)

\* C4: the accumulated document is the concatenation, in call order, of the
\* generatedCode values returned so far, and the attempts used are the adapter
\* calls made.
C4_Concatenation ==
  /\ accumulatedCode = Flatten(returned)
  /\ currentAttempt = adapterCalls
  /\ Len(returned) <= adapterCalls

\* two chunks, the second complete: the document is their concatenation
C4_Witness ==
  /\ pc = "done"
  /\ returned = << <<"<html>">>, <<"</html>">> >>
  /\ accumulatedCode = <<"<html>", "</html>">>
  /\ adapterCalls = 2
  /\ SucceededNotice

\* C5: every request the loop sends and the adapter forwards has attemptNumber
\* equal to the attempts already used plus one, and attemptNumber is 1 exactly
\* when previousContent is absent or empty.
C5_RequestShape ==
  /\ pc = "await" =>
       /\ AttemptNumberOf(request.attemptNumber) = (adapterCalls - 1) + 1
       /\ (AttemptNumberOf(request.attemptNumber) = 1 <=> ~Truthy(request.previousContent))
  /\ flowInput # NoFlowInput =>
       (flowInput.attemptNumber = 1 <=> ~Truthy(flowInput.previousContent))

\* C6: when photoDataUri does not start with data:image/, the action makes no
\* remote call and returns a non-empty error with isComplete = true, and the run
\* ends FAILED after that single adapter call.
C6_ValidationShortCircuit ==
  (~StartsWith(img, <<"data:", "image/">>) /\ lastResult.kind = "returns") =>
    /\ remoteCalls = 0
    /\ Truthy(lastResult.result.error)
    /\ lastResult.result.isComplete = TRUE
    /\ pc = "done"
    /\ adapterCalls = 1
    /\ Outcomes = {"FAILED"}
    /\ Truthy(error)

\* a run on a payload that is a data URI of another media type
C6_Witness ==
  /\ pc = "done"
  /\ img = <<"data:", "text/", "plain", ";base64,", "CCCC">>
  /\ lastResult.kind = "returns"
  /\ adapterCalls = 1

C8_TransportFatal ==
  (pc = "done" /\ "transport" \in seen) => (Failed /\ ~SucceededNotice)

\* C9: if the remote model reports a SAFETY or RECITATION finish reason on any
\* attempt, the run ends FAILED with an error shown and no further attempt is
\* issued.
C9_PolicyFatal ==
  "policy" \in seen => (pc = "done" /\ Failed)

\* C10: when the remote call fails with a rate-limit or quota error, the run
\* ends FAILED and the error shown is the usage-limits message, not a generic
\* or no-code one.
C10_QuotaSurfaced ==
  (pc = "done" /\ "quota" \in seen) =>
    /\ Failed
    /\ \A t \in toasts : t.title \in ErrorTitles => t.description = UsageLimitsMessage

\* C11: for every request the loop sends (and any payload handed to the action)
\* and every behaviour of the remote call - throwing any value, resolving to
\* null, text() or candidates throwing - generateWebpageAction returns a result
\* object; it never rejects.
C11_AdapterNeverThrows ==
  pc = "await" =>
    \A llm \in LlmBehaviours :
      generateWebpageAction(request.photoDataUri, request.previousContent,
                            AttemptNumberOf(request.attemptNumber), llm).kind = "returns"

\* the remote call threw undefined: the flow's catch threw, the action's catch
\* turned that into a result
C11_Witness ==
  /\ lastResult.kind = "returns"
  /\ lastResult.result.error = NullishTypeError.message
  /\ pc = "done"

\* an adapter result with no error, no code and isComplete false
EmptyIncomplete(o) ==
  /\ o.kind = "returns"
  /\ ~Truthy(o.result.error)
  /\ ~Truthy(o.result.generatedCode)
  /\ o.result.isComplete = FALSE

C13_FirstAttemptEmpty ==
  (Len(returned) >= 1 /\ ~Truthy(returned[1])) =>
    /\ pc = "done"
    /\ adapterCalls = 1
    /\ Outcomes = {"FAILED"}
    /\ \A t \in toasts : t.title \in ErrorTitles => Truthy(t.description)

\* the run is over and its last result came without error and incomplete; the
\* loop went past every earlier result, so those were incomplete without error too
AllIncomplete ==
  /\ pc = "done"
  /\ lastResult.kind = "returns"
  /\ ~Truthy(lastResult.result.error)
  /\ lastResult.result.isComplete = FALSE

BudgetExhausted ==
  /\ adapterCalls = MAX_ATTEMPTS /\ Len(returned) = MAX_ATTEMPTS
  /\ Outcomes = {"SUCCEEDED_TRUNCATED"}
  /\ ~Truthy(error)
  /\ accumulatedCode = Flatten(returned)
  /\ generatedCode = accumulatedCode
  /\ ~isGenerationComplete

\* C14 as stated: if every attempt returns without error and reports incomplete,
\* the run makes exactly MAX_ATTEMPTS calls and ends SUCCEEDED_TRUNCATED, with no
\* error, all text kept, the result not complete, the truncation notice and no
\* Success! notice.
C14_Original == AllIncomplete => BudgetExhausted

\* C14, amended: if every attempt returns without error, with non-empty code, and
\* reports incomplete, the run makes exactly MAX_ATTEMPTS calls and ends
\* SUCCEEDED_TRUNCATED, with no error, all text kept, the result not complete,
\* the truncation notice and no Success! notice.
C14_BudgetExhaustion ==
  (AllIncomplete /\ \A i \in 1..Len(returned) : Truthy(returned[i])) => BudgetExhausted

\* five chunks, each incomplete
C14_Witness ==
  /\ AllIncomplete
  /\ Len(returned) = MAX_ATTEMPTS
  /\ \A i \in 1..Len(returned) : Truthy(returned[i])
  /\ Truncated

\* C15: within a run at most one adapter call is in flight: while attempt k+1 is
\* awaited every earlier attempt has returned, and its previous content is the
\* concatenation of all their chunks, attempt k's included; outside an await no
\* request is in flight.
C15_Sequential ==
  /\ pc = "await" =>
       /\ adapterCalls = Len(returned) + 1
       /\ currentAttempt = adapterCalls
       /\ request.photoDataUri = img
       /\ (adapterCalls = 1 => request.previousContent = Undefined)
       /\ (adapterCalls > 1 => request.previousContent = Flatten(returned))
  /\ pc # "await" => (request = NoRequest /\ adapterCalls - Len(returned) \in {0, 1})

\* attempt 3 in flight after two chunks
C15_Witness ==
  /\ pc = "await"
  /\ adapterCalls = 3
  /\ Len(returned) = 2 /\ Truthy(returned[1]) /\ Truthy(returned[2])
  /\ request.previousContent = returned[1] \o returned[2]

\* a run is in progress and the image on the page is no longer the one it
\* started with: it was replaced, or the read that replaced it failed
Cancelled == pc = "await" /\ originalImage # img

\* C16: once the image was cleared or replaced during a run, the loop issues no
\* adapter call beyond the one in flight.
C16_CancellationStops == [][Cancelled => adapterCalls' = adapterCalls]_vars

MarkerFree(t) == ~Includes(t, marker)

\* rawText is S + sentinel for a sentinel-free S
SentinelAppended ==
  /\ Len(rawText) >= 1
  /\ rawText[Len(rawText)] = marker
  /\ MarkerFree(SubSeq(rawText, 1, Len(rawText) - 1))

\* C18: for every text S without the sentinel, the flow's post-processing of
\* S + sentinel gives a cleaned text equal to S up to trailing whitespace with the
\* sentinel found, and its post-processing of S alone finds no sentinel.
C18_SentinelRemoval ==
  textPc = "processed" =>
    /\ SentinelAppended =>
         /\ textOut.userMarkerFound
         /\ textOut.cleanedText = TrimEnd(SubSeq(rawText, 1, Len(rawText) - 1))
    /\ MarkerFree(rawText) => ~textOut.userMarkerFound

\* C19: whenever the raw chunk ends with the sentinel, the flow's result has
\* isComplete = false, for every finish reason, every attempt number and every
\* chunk content.
C19_SentinelForcesIncomplete ==
  (textPc = "processed" /\ EndsWith(rawText, <<marker>>)) =>
    textOut.output.isComplete = FALSE

\* the reasons that make a chunk incomplete, in the spellings met here
IncompleteReasons ==
  { "MAX_TOKENS", "SAFETY", "RECITATION", "OTHER", "UNKNOWN", "other", "unknown" }

\* C20: before the empty-continuation safeguard, the flow's completeness
\* decision is false exactly when the finish reason is one of MAX_TOKENS,
\* SAFETY, RECITATION, OTHER, UNKNOWN (in either letter case) or the sentinel
\* was found, and true in every other case.
C20_Classifier ==
  textPc = "processed" =>
    (textOut.isActuallyComplete = FALSE
       <=> (textOut.finishReason \in IncompleteReasons \/ textOut.userMarkerFound))

\* a text without sentinel that stopped for RECITATION, and one with the
\* sentinel that stopped normally, are both classified incomplete
C20_Witness ==
  /\ textPc = "processed"
  /\ rawText # <<>>
  /\ ~textOut.isActuallyComplete
  /\ \/ textOut.finishReason = "RECITATION" /\ ~textOut.userMarkerFound
     \/ textOut.finishReason = "STOP" /\ textOut.userMarkerFound

\* t with at most a fence-open in front (the fence, or the fence and the word
\* html) and a fence-close at the end taken off, and trimmed
WrapperStrippings(t) ==
  { Trim(SubSeq(t, 1 + a, Len(t) - b)) :
      <<a, b>> \in { ab \in (0..2) \X (0..1) :
                       /\ ab[1] + ab[2] <= Len(t)
                       /\ ab[1] >= 1 => t[1] = FENCE
                       /\ ab[1] = 2 => t[2] = HTML
                       /\ ab[2] = 1 => t[Len(t)] = FENCE } }

\* C21: for every chunk the fence-stripping of the flow and that of the action
\* remove at most one leading fence-open and one trailing fence-close; every
\* interior fence and all text before, between and after interior fences is in
\* the cleaned text.
C21_OnlyWrapperFences ==
  textPc = "stripped" =>
    /\ textOut.flowStripped \in WrapperStrippings(Trim(rawText)) \cup WrapperStrippings(rawText)
    /\ textOut.actionStripped \in WrapperStrippings(Trim(rawText)) \cup WrapperStrippings(rawText)

\* a string that contains no code fence
FenceFree(t) == ~Includes(t, FENCE)

\* C22 as stated: for every string that contains no code fence the
\* fence-stripping step returns the string unchanged.
C22_Original ==
  (textPc = "stripped" /\ FenceFree(rawText)) =>
    /\ textOut.flowStripped = rawText
    /\ textOut.actionStripped = rawText

\* C22: for every string that contains no code fence the fence-stripping step
\* (of the flow and of the action) returns the string with its leading and
\* trailing whitespace removed and nothing else changed, and applying the step
\* a second time to its own output changes nothing.
C22_IdempotentFenceStripping ==
  (textPc \in { "stripped", "restripped" } /\ FenceFree(rawText)) =>
    /\ textOut.flowStripped = Trim(rawText)
    /\ textOut.actionStripped = Trim(rawText)
    /\ textPc = "restripped" =>
         /\ textOut.flowRestripped = textOut.flowStripped
         /\ textOut.actionRestripped = textOut.actionStripped

C22_Witness ==
  /\ textPc = "restripped"
  /\ FenceFree(rawText)
  /\ Trim(rawText) # <<>>
  /\ Trim(rawText) # rawText
  /\ textOut.actionRestripped = Trim(rawText)
  /\ textOut.flowRestripped = Trim(rawText)

\* htmlChunk of the action once its fences and a complete chunk's marker are off
CleanedChunk(responseChunk) ==
  ActionStripMarker(ActionStripFences(Coalesce(responseChunk.htmlChunk, <<>>)),
                    responseChunk.isComplete)

\* C23: on a first attempt (valid image, no previous content), whenever the flow
\* returns and the cleaned chunk is empty - whatever the finish reason and the
\* completeness flag, the flow's own transport-failure result included -
\* generateWebpageAction returns a non-empty error, isComplete = true and an
\* empty generatedCode.
C23_FirstAttemptEmptyResult ==
  (pc = "await" /\ ValidationSuccess(request.photoDataUri)
                /\ ~Truthy(request.previousContent)) =>
    \A llm \in LlmBehaviours :
      LET attemptNumber == AttemptNumberOf(request.attemptNumber)
          flow == generateWebpageFlow(ActionFlowInput(request.photoDataUri,
                                                      request.previousContent,
                                                      attemptNumber), llm)
          o == generateWebpageAction(request.photoDataUri, request.previousContent,
                                     attemptNumber, llm)
      IN  (flow.kind = "returns" /\ Trim(CleanedChunk(flow.output)) = <<>>) =>
            /\ o.kind = "returns"
            /\ Truthy(o.result.error)
            /\ o.result.isComplete = TRUE
            /\ o.result.generatedCode = <<>>

\* C24: the prompt the flow builds on attempt 1 is the initial prompt; on every
\* attempt k >= 2 it is the continuation prompt and embeds the whole text
\* accumulated before that attempt.
C24_ContinuationSeeded ==
  (pc = "await" /\ ValidationSuccess(request.photoDataUri)) =>
    LET prompt == generateWebpagePrompt(
                    ActionFlowInput(request.photoDataUri, request.previousContent,
                                    AttemptNumberOf(request.attemptNumber)))
    IN  IF currentAttempt >= 2
        THEN /\ prompt.kind = "CONTINUATION"
             /\ prompt.previousContent = accumulatedCode
        ELSE prompt.kind = "INITIAL GENERATION"

\* the notices a run shows with setError for an adapter error or an exception
RecordedErrorTitles == {"Generation Error", "Critical Error"}

\* C25: the generic 'AI did not generate any code' error is set in a run (with
\* its 'No Code Generated' notice) only if the document is empty and the run
\* recorded no adapter error and no exception; an error recorded in the run is
\* not replaced by the generic one.
C25_GenericErrorOnlyWithoutError ==
  /\ NoCodeToast \in toasts =>
       /\ accumulatedCode = <<>>
       /\ \A t \in toasts : t.title \notin RecordedErrorTitles
  /\ (pc = "done" /\ lastResult.kind = "returns" /\ Truthy(lastResult.result.error)
       /\ error # Undefined) => error = lastResult.result.error

\* the run is over and its last result is the validation failure of the action
ValidationFailed ==
  /\ pc = "done"
  /\ lastResult.kind = "returns"
  /\ lastResult.result.error = ValidationMessage

C27_Termination == (isLoading \/ pc = "await") ~> (pc = "done" /\ ~isLoading)

\* a run that used the whole budget, and one that ended in the catch, are over
C27_Witness ==
  /\ pc = "done"
  /\ ~isLoading
  /\ adapterCalls = MAX_ATTEMPTS
  /\ lastResult.kind = "rejects"

\* C28: whenever a result of generateWebpageAction has isComplete = true, its
\* generatedCode contains no occurrence of the sentinel, wherever and however
\* often the model's text has it.
C28_NoSentinelInCompleteChunk ==
  (textPc = "acted" /\ textOut.result.isComplete = TRUE) =>
    MarkerFree(Coalesce(textOut.result.generatedCode, <<>>))

\* C29: for every request (valid payload or not, with or without previous
\* content) and every behaviour of the remote call, a result of
\* generateWebpageAction that carries an error - validation failure, empty
\* initial content, caught exception - has isComplete = true.
C29_ErrorImpliesComplete ==
  /\ pc = "await" =>
       \A llm \in LlmBehaviours :
         LET o == generateWebpageAction(request.photoDataUri, request.previousContent,
                                        AttemptNumberOf(request.attemptNumber), llm)
         IN  (o.kind = "returns" /\ o.result.error # Undefined) => o.result.isComplete = TRUE
  /\ (lastResult.kind = "returns" /\ lastResult.result.error # Undefined) =>
       lastResult.result.isComplete = TRUE

\* the run ended on the result of the action's catch
C29_Witness ==
  /\ pc = "done"
  /\ lastResult.kind = "returns"
  /\ lastResult.result.error = NullishTypeError.message
  /\ lastResult.result.isComplete = TRUE
  /\ isGenerationComplete = TRUE

\* C30: while isLoading no step changes originalImage or resets generatedCode,
\* error or attempts to their initial values, and no second run starts (a run
\* starts only when isLoading is false); hence in every reachable state a
\* non-empty displayed generatedCode was generated from the displayed
\* originalImage, the image img the run took at the click.
C30_RunIsolated ==
  /\ [][isLoading =>
          /\ originalImage' = originalImage
          /\ (Truthy(generatedCode) => Truthy(generatedCode'))
          /\ attempts' >= attempts
          /\ adapterCalls' >= adapterCalls]_vars
  /\ [](Truthy(generatedCode) => originalImage = img)

====
